---------------------------- MODULE Spec2Model ----------------------------
(***************************************************************************)
(* game_score_rs: per-player aggregation of a score log, ordering, dense   *)
(* ranking with a cutoff and rendering against a player directory.         *)
(*                                                                         *)
(* Text is modelled as sequences of characters (one-character strings), so *)
(* that line splitting, literal parsing and the byte-wise ordering of      *)
(* player identifiers are computed, not assumed.  f64 values are modelled  *)
(* on an exactly representable slice of the doubles (see the section on    *)
(* f64 below) together with NaN.                                           *)
(***************************************************************************)
EXTENDS Integers, Sequences, FiniteSets, TLC

VARIABLES
    pc,           \* position of main / of the loader it is running
    score_file,   \* raw lines read so far from the score log (header first)
    score_map,    \* get_scores: local HashMap<String, Score>
    scores,       \* main: Vec<Score> returned by get_scores
    player_file,  \* raw lines read so far from the player file (header first)
    player_map,   \* get_players: local HashMap<String, Player>
    players,      \* main: HashMap<String, Player> returned by get_players
    limit,        \* the limit argument handed to rank
    ranking,      \* main: Vec<RankingScore> returned by rank
    out_idx,      \* output: position of the iterator over ranking_scores
    stdout,       \* lines written by println!
    stderr        \* lines written by eprintln! / the panic message

vars == <<pc, score_file, score_map, scores, player_file, player_map,
          players, limit, ranking, out_idx, stdout, stderr>>

----------------------------------------------------------------------------
(* Bounds of the model *)

MaxLines == 3
MaxMainLines == 3
MaxPlayerLines == 2
MaxScores == 3
MaxLimit == 3
MaxLadder == 12

----------------------------------------------------------------------------
(* Generic helpers *)

Max2(a, b) == IF a >= b THEN a ELSE b

RECURSIVE Pow2(_)
Pow2(k) == IF k <= 0 THEN 1 ELSE 2 * Pow2(k - 1)

RECURSIVE Log2Floor(_)
Log2Floor(x) == IF x < 2 THEN 0 ELSE 1 + Log2Floor(x \div 2)

Perms(S) ==
    { p \in [1..Cardinality(S) -> S] :
        \A i, j \in 1..Cardinality(S) : p[i] = p[j] => i = j }

----------------------------------------------------------------------------
(* f64.                                                                    *)
(*                                                                         *)
(* A finite value [c, l] denotes the integer c * W + l with                *)
(* W = UnitOdd * 2^UnitExp = 105 * 2^40 and |l| far below W; c >= 0.       *)
(* With c = 0 these are the small integers, on which f64 arithmetic is     *)
(* exact.  With c > 0 the value lies in the binade                         *)
(* 2^(Log2Floor(105 c) + 40), where consecutive doubles are                *)
(* 2^(Log2Floor(105 c) + 40 - 52) apart, and every operation rounds to the *)
(* nearest double, ties to the even mantissa, as IEEE 754 does.  105 c is  *)
(* never a power of two, so a small l never moves the value to another     *)
(* binade.                                                                 *)

UnitOdd == 105
UnitExp == 40
MantissaBits == 52

NaN == [nan |-> TRUE, c |-> 0, l |-> 0]
Fin(c, l) == [nan |-> FALSE, c |-> c, l |-> l]
Zero == Fin(0, 0)

\* exponent e of the distance 2^e between consecutive doubles around c*W (c > 0)
UlpExp(c) == Log2Floor(UnitOdd * c) + UnitExp - MantissaBits

\* nearest integer to num/den (den > 0), ties to the even integer
RoundTiesEven(num, den) ==
    LET q == num \div den
        r == num % den
    IN  IF 2 * r < den THEN q
        ELSE IF 2 * r > den THEN q + 1
        ELSE IF q % 2 = 0 THEN q ELSE q + 1

\* (mutant) round() with ties to the even integer
RoundHalfEven(num, den) == RoundTiesEven(num, den)
\* nearest integer to num/den (den > 0), ties away from zero: f64::round
RoundHalfAway(num, den) ==
    IF num >= 0 THEN (2 * num + den) \div (2 * den)
    ELSE -((2 * (-num) + den) \div (2 * den))

\* the same for a quotient inside a positive value: ties towards +infinity
RoundHalfUp(num, den) == (2 * num + den) \div (2 * den)

\* the double nearest to c*W + l
F64Nearest(c, l) ==
    IF c = 0 \/ UlpExp(c) <= 0 THEN Fin(c, l)
    ELSE Fin(c, Pow2(UlpExp(c)) * RoundTiesEven(l, Pow2(UlpExp(c))))

\* a == b on f64
FEq(x, y) == ~x.nan /\ ~y.nan /\ x.c = y.c /\ x.l = y.l

\* a < b on f64
FLt(x, y) == ~x.nan /\ ~y.nan /\ (x.c < y.c \/ (x.c = y.c /\ x.l < y.l))

\* a + b on f64
FAdd(x, y) ==
    IF x.nan \/ y.nan THEN NaN ELSE F64Nearest(x.c + y.c, x.l + y.l)

\* (t / n as f64).round() for n >= 1.  For c = 0 the quotient of two small
\* integers is within 2^-53 relative of l/n, never enough to reach or leave a
\* half-integer, so round() sees the same side of every half as l/n itself.
\* For c > 0 (c a multiple of n in this model) the quotient (c/n)*W + l/n is
\* first rounded to the nearest double, then round() rounds that double.
FDivRound(t, n) ==
    IF t.nan THEN NaN
    ELSE IF t.c = 0 THEN Fin(0, RoundHalfAway(t.l, n))
    ELSE LET qc == t.c \div n
             e  == UlpExp(qc)
         IN  IF e >= 0
             THEN Fin(qc, Pow2(e) * RoundTiesEven(t.l, n * Pow2(e)))
             ELSE Fin(qc, RoundHalfUp(RoundTiesEven(t.l * Pow2(-e), n), Pow2(-e)))

----------------------------------------------------------------------------
(* Text *)

Comma == ","
Eol == "\n"
\* the one multi-digit literal of the model, kept as a single symbol of a line:
\* 6926923254988800 = 60 * 105 * 2^40, between 2^52 and 2^53
BigLit == "6926923254988800"
BigUnits == 60

Digits == <<"0", "1", "2", "3", "4", "5", "6", "7", "8", "9">>
IsDigit(ch) == \E i \in 1..Len(Digits) : Digits[i] = ch
DigitVal(ch) == (CHOOSE i \in 1..Len(Digits) : Digits[i] = ch) - 1

\* byte value of a character of an identifier
Byte(ch) ==
    CASE ch = "a" -> 97 [] ch = "b" -> 98 [] ch = "c" -> 99 [] ch = "d" -> 100
      [] ch = Comma -> 44 [] ch = "-" -> 45 [] ch = "N" -> 78
      [] IsDigit(ch) -> 48 + DigitVal(ch)
      [] OTHER -> 0

\* String's Ord: lexicographic on bytes, a proper prefix is smaller
RECURSIVE StrGt(_, _)
StrGt(x, y) ==
    IF x = <<>> THEN FALSE
    ELSE IF y = <<>> THEN TRUE
    ELSE IF Byte(Head(x)) # Byte(Head(y)) THEN Byte(Head(x)) > Byte(Head(y))
    ELSE StrGt(Tail(x), Tail(y))

\* line.lines().collect::<Vec<&str>>()[0]: the text before the first line end
FirstLine(raw) ==
    IF \E i \in 1..Len(raw) : raw[i] = Eol
    THEN SubSeq(raw, 1,
                (CHOOSE i \in 1..Len(raw) :
                    raw[i] = Eol /\ \A j \in 1..(i - 1) : raw[j] # Eol) - 1)
    ELSE raw

\* str::split(","): the fields between the separators, empty ones included
RECURSIVE Split(_)
Split(s) ==
    IF \E i \in 1..Len(s) : s[i] = Comma
    THEN LET i == CHOOSE k \in 1..Len(s) :
                    s[k] = Comma /\ \A j \in 1..(k - 1) : s[j] # Comma
         IN  <<SubSeq(s, 1, i - 1)>> \o Split(SubSeq(s, i + 1, Len(s)))
    ELSE <<s>>

RECURSIVE DecimalValue(_)
DecimalValue(ds) ==
    IF ds = <<>> THEN 0
    ELSE 10 * DecimalValue(SubSeq(ds, 1, Len(ds) - 1)) + DigitVal(ds[Len(ds)])

AllDigits(ds) == ds # <<>> /\ \A i \in 1..Len(ds) : IsDigit(ds[i])

\* str::parse::<f64>() on the literals the model's alphabet can spell:
\* "NaN", decimal integers with an optional minus sign, and BigLit (the
\* alphabet has no ".", no exponent and no "inf")
ParseF64(field) ==
    IF field = <<"N", "a", "N">> THEN [ok |-> TRUE, val |-> NaN]
    ELSE IF field = <<BigLit>> THEN [ok |-> TRUE, val |-> Fin(BigUnits, 0)]
    ELSE IF AllDigits(field)
        THEN [ok |-> TRUE, val |-> Fin(0, DecimalValue(field))]
    ELSE IF field # <<>> /\ Head(field) = "-" /\ AllDigits(Tail(field))
        THEN [ok |-> TRUE, val |-> Fin(0, -DecimalValue(Tail(field)))]
    ELSE [ok |-> FALSE, val |-> Zero]

----------------------------------------------------------------------------
(* Score, Player, RankingScore and the two hash maps *)

\* Score::new
ScoreNew(id, score) ==
    [player_id |-> id, total_score |-> score, mean_score |-> Zero,
     play_count |-> 1]

\* (mutant) Score::add without the increment of play_count
ScoreAddNoCount(s, score) ==
    [s EXCEPT !.total_score = FAdd(@, score)]
\* Score::add
ScoreAdd(s, score) ==
    [s EXCEPT !.total_score = FAdd(@, score), !.play_count = @ + 1]

\* Score::average
ScoreAverage(s) ==
    IF s.play_count # 0
    THEN [s EXCEPT !.mean_score = FDivRound(s.total_score, s.play_count)]
    ELSE s

\* Player::new
PlayerNew(id, name) == [player_id |-> id, handle_name |-> name]

\* HashMap::new, HashMap::insert
EmptyMap == [k \in {} |-> Zero]
MapInsert(m, k, v) == [x \in (DOMAIN m) \cup {k} |-> IF x = k THEN v ELSE m[x]]

----------------------------------------------------------------------------
(* The lines the environment can hand to read_line *)

RECURSIVE Join(_)
Join(fields) ==
    IF Len(fields) = 0 THEN <<>>
    ELSE IF Len(fields) = 1 THEN fields[1]
    ELSE fields[1] \o <<Comma>> \o Join(Tail(fields))

MkLine(fields) == Join(fields) \o <<Eol>>

IdA == <<"a">>
IdAB == <<"a", "b">>
IdB == <<"b">>
LitNaN == <<"N", "a", "N">>
LitMinus1 == <<"-", "1">>
NameOf(id) == <<"N">> \o id

ScoreHeader == MkLine(<<<<"p">>, <<"i">>, <<"s">>>>)
PlayerHeader == MkLine(<<<<"i">>, <<"h">>>>)

ScoreLine(id, lit) == MkLine(<<<<"1">>, id, lit>>)
PlayerLine(id) == MkLine(<<id, NameOf(id)>>)

\* lines a loader rejects: a blank line, one field short, one field too many,
\* a score that is no literal, an empty score
BlankLine == <<Eol>>
BadScoreLines ==
    { BlankLine, MkLine(<<<<"1">>, IdA>>), MkLine(<<<<"1">>, IdA, <<"1">>, <<>>>>),
      ScoreLine(IdA, <<"a">>), ScoreLine(IdB, <<>>) }
BadPlayerLines ==
    { BlankLine, MkLine(<<IdA>>), MkLine(<<IdA, NameOf(IdA), <<"1">>>>) }

RichIds == {IdA, IdB}
RichLits == {LitMinus1, <<"0">>, <<"1">>, LitNaN, <<BigLit>>}
RichScoreLines ==
    { ScoreLine(id, lit) : id \in RichIds, lit \in RichLits } \cup BadScoreLines
RichHeaders == {ScoreHeader, ScoreLine(IdA, <<"1">>)}

MainIds == {IdA, IdAB}
MainLits == {<<"1">>, <<"2">>, LitNaN}
MainScoreLines ==
    { ScoreLine(id, lit) : id \in MainIds, lit \in MainLits } \cup BadScoreLines
MainHeaders == {ScoreHeader}
MainPlayerLines == { PlayerLine(id) : id \in MainIds } \cup BadPlayerLines
MainPlayerHeaders == {PlayerHeader}

----------------------------------------------------------------------------
(* get_scores *)

\* (mutant) a line with more than three fields passes
ScoreFieldsLoose(fields) == Len(fields) >= 3
\* the check on the field count of a score line (fields.len() != 3)
ScoreFieldsOk(fields) == Len(fields) = 3

\* the body of the loop for one line read: the error it returns, or the map
ScoreLineStep(m, raw) ==
    LET fields == Split(FirstLine(raw))
    IN  IF ~ScoreFieldsOk(fields)
        THEN [err |-> "score format", map |-> m]
        ELSE LET player_id == fields[2]
                 parsed == ParseF64(fields[3])
             IN  IF ~parsed.ok
                 THEN [err |-> "score value", map |-> m]
                 ELSE IF player_id \in DOMAIN m
                 THEN [err |-> "",
                       map |-> MapInsert(m, player_id,
                                         ScoreAdd(m[player_id], parsed.val))]
                 ELSE [err |-> "",
                       map |-> MapInsert(m, player_id,
                                         ScoreNew(player_id, parsed.val))]

\* main's match on a loader's Err: eprintln!, return
Fail(msg) ==
    /\ pc' = "error"
    /\ stderr' = Append(stderr, msg)

\* File::open on the score log
OpenScores ==
    /\ pc = "open_scores"
    /\ \E opened \in BOOLEAN :
        IF opened
        THEN /\ pc' = "scores_header"
             /\ UNCHANGED stderr
        ELSE Fail("score open")
    /\ UNCHANGED <<score_file, score_map, scores, player_file, player_map,
                   players, limit, ranking, out_idx, stdout>>

\* let _ = reader.read_line(..): one line is consumed whatever it holds
SkipScoresHeader(headers) ==
    /\ pc = "scores_header"
    /\ \/ \E raw \in headers :
            /\ score_file' = Append(score_file, raw)
            /\ pc' = "scores_loop"
       \/ /\ score_file' = score_file
          /\ pc' = "scores_eof"
    /\ score_map' = EmptyMap
    /\ UNCHANGED <<scores, player_file, player_map, players, limit, ranking,
                   out_idx, stdout, stderr>>

\* Ok(_): one more line of the score log
ReadScoreLine(lines, max) ==
    /\ pc = "scores_loop"
    /\ Len(score_file) <= max
    /\ \E raw \in lines :
        LET step == ScoreLineStep(score_map, raw)
        IN  /\ score_file' = Append(score_file, raw)
            /\ score_map' = step.map
            /\ IF step.err # ""
               THEN Fail(step.err)
               ELSE UNCHANGED <<pc, stderr>>
    /\ UNCHANGED <<scores, player_file, player_map, players, limit, ranking,
                   out_idx, stdout>>

\* Err(_) from read_line
ScoresReadErr ==
    /\ pc = "scores_loop"
    /\ Fail("score read")
    /\ UNCHANGED <<score_file, score_map, scores, player_file, player_map,
                   players, limit, ranking, out_idx, stdout>>

\* Ok(0): average every accumulator and collect the values; the order is the
\* hash map's, any order of the keys
ScoresEof ==
    /\ pc \in {"scores_loop", "scores_eof"}
    /\ \E order \in Perms(DOMAIN score_map) :
        scores' = [i \in 1..Len(order) |-> ScoreAverage(score_map[order[i]])]
    /\ pc' = "open_players"
    /\ UNCHANGED <<score_file, score_map, player_file, player_map, players,
                   limit, ranking, out_idx, stdout, stderr>>

----------------------------------------------------------------------------
(* get_players *)

\* the check on the field count of a player line (fields.len() != 2)
PlayerFieldsOk(fields) == Len(fields) = 2

\* the body of the loop for one line read: the error it returns, or the map
PlayerLineStep(m, raw) ==
    LET fields == Split(FirstLine(raw))
    IN  IF ~PlayerFieldsOk(fields)
        THEN [err |-> "player format", map |-> m]
        ELSE [err |-> "",
              map |-> MapInsert(m, fields[1], PlayerNew(fields[1], fields[2]))]

\* File::open on the player file
OpenPlayers ==
    /\ pc = "open_players"
    /\ \E opened \in BOOLEAN :
        IF opened
        THEN /\ pc' = "players_header"
             /\ UNCHANGED stderr
        ELSE Fail("player open")
    /\ UNCHANGED <<score_file, score_map, scores, player_file, player_map,
                   players, limit, ranking, out_idx, stdout>>

\* let _ = reader.read_line(..)
SkipPlayersHeader(headers) ==
    /\ pc = "players_header"
    /\ \/ \E raw \in headers :
            /\ player_file' = Append(player_file, raw)
            /\ pc' = "players_loop"
       \/ /\ player_file' = player_file
          /\ pc' = "players_eof"
    /\ player_map' = EmptyMap
    /\ UNCHANGED <<score_file, score_map, scores, players, limit, ranking,
                   out_idx, stdout, stderr>>

\* Ok(_): one more line of the player file
ReadPlayerLine(lines, max) ==
    /\ pc = "players_loop"
    /\ Len(player_file) <= max
    /\ \E raw \in lines :
        LET step == PlayerLineStep(player_map, raw)
        IN  /\ player_file' = Append(player_file, raw)
            /\ player_map' = step.map
            /\ IF step.err # ""
               THEN Fail(step.err)
               ELSE UNCHANGED <<pc, stderr>>
    /\ UNCHANGED <<score_file, score_map, scores, players, limit, ranking,
                   out_idx, stdout>>

\* Err(_) from read_line; the message is the score log's
PlayersReadErr ==
    /\ pc = "players_loop"
    /\ Fail("score read")
    /\ UNCHANGED <<score_file, score_map, scores, player_file, player_map,
                   players, limit, ranking, out_idx, stdout>>

\* Ok(0): Ok(players)
PlayersEof ==
    /\ pc \in {"players_loop", "players_eof"}
    /\ players' = player_map
    /\ pc' = "sort"
    /\ UNCHANGED <<score_file, score_map, scores, player_file, player_map,
                   limit, ranking, out_idx, stdout, stderr>>

----------------------------------------------------------------------------
(* sort *)

\* the closure handed to sort_by
Compare(a, b) ==
    IF FEq(a.mean_score, b.mean_score)
    THEN IF StrGt(a.player_id, b.player_id) THEN "Greater" ELSE "Less"
    ELSE IF FLt(a.mean_score, b.mean_score) THEN "Greater" ELSE "Less"

\* slice::sort_by on a slice of at most 20 elements: a stable insertion sort;
\* the element at the tail moves left past every element it compares Less
\* than.  On a total order this is the sorted vector; the closure decides what
\* it is otherwise.
RECURSIVE InsertTail(_, _)
InsertTail(v, x) ==
    IF v = <<>> THEN <<x>>
    ELSE IF Compare(x, v[Len(v)]) = "Less"
    THEN InsertTail(SubSeq(v, 1, Len(v) - 1), x) \o <<v[Len(v)]>>
    ELSE Append(v, x)

RECURSIVE SortBy(_)
SortBy(v) ==
    IF Len(v) <= 1 THEN v
    ELSE InsertTail(SortBy(SubSeq(v, 1, Len(v) - 1)), v[Len(v)])

Sort ==
    /\ pc = "sort"
    /\ scores' = SortBy(scores)
    /\ pc' = "rank"
    /\ UNCHANGED <<score_file, score_map, player_file, player_map, players,
                   limit, ranking, out_idx, stdout, stderr>>

----------------------------------------------------------------------------
(* rank *)

\* the rank of the next entry, decided after the entry at index was pushed
NextRank(v, index, rank) ==
    IF Len(v) > index + 1
    THEN IF FEq(v[index + 1].mean_score, v[index + 2].mean_score)
         THEN rank ELSE rank + 1
    ELSE rank

\* the while loop of rank; index counts from 0 as in the source
RECURSIVE RankLoop(_, _, _, _, _)
RankLoop(v, lim, rank, index, ranking_scores) ==
    IF ~(Len(v) > index) THEN ranking_scores
    ELSE LET pushed == Append(ranking_scores,
                              [rank |-> rank, inner |-> v[index + 1]])
         IN  IF NextRank(v, index, rank) > lim THEN pushed
             ELSE RankLoop(v, lim, NextRank(v, index, rank), index + 1, pushed)

\* (mutant) the loop never breaks on the limit
RankOfNoCutoff(v, lim) == RankLoop(v, Len(v) + 1, 1, 0, <<>>)
RankOf(v, lim) == RankLoop(v, lim, 1, 0, <<>>)

Rank ==
    /\ pc = "rank"
    /\ ranking' = RankOf(scores, limit)
    /\ pc' = "output"
    /\ UNCHANGED <<score_file, score_map, scores, player_file, player_map,
                   players, limit, out_idx, stdout, stderr>>

----------------------------------------------------------------------------
(* output *)

HeaderOut == <<"rank", "player_id", "handle_name", "mean_score">>

\* the four values of one println!
LineOut(score, dir) ==
    <<score.rank, score.inner.player_id,
      dir[score.inner.player_id].handle_name, score.inner.mean_score>>

OutputHeader ==
    /\ pc = "output"
    /\ stdout' = Append(stdout, HeaderOut)
    /\ out_idx' = 1
    /\ pc' = "output_loop"
    /\ UNCHANGED <<score_file, score_map, scores, player_file, player_map,
                   players, limit, ranking, stderr>>

\* one turn of the for loop: players.get(..).unwrap(), then println!
OutputLine ==
    /\ pc = "output_loop"
    /\ out_idx <= Len(ranking)
    /\ IF ranking[out_idx].inner.player_id \in DOMAIN players
       THEN /\ stdout' = Append(stdout, LineOut(ranking[out_idx], players))
            /\ out_idx' = out_idx + 1
            /\ UNCHANGED <<pc, stderr>>
       ELSE /\ pc' = "panic"
            /\ stderr' = Append(stderr, "unwrap on None")
            /\ UNCHANGED <<stdout, out_idx>>
    /\ UNCHANGED <<score_file, score_map, scores, player_file, player_map,
                   players, limit, ranking>>

\* the iterator is exhausted: output and main return
OutputEnd ==
    /\ pc = "output_loop"
    /\ out_idx > Len(ranking)
    /\ pc' = "done"
    /\ UNCHANGED <<score_file, score_map, scores, player_file, player_map,
                   players, limit, ranking, out_idx, stdout, stderr>>

----------------------------------------------------------------------------
(* main *)

\* get_args: the program name and exactly two arguments
GetArgs ==
    /\ pc = "args"
    /\ \E argc \in {2, 3} :
        IF argc # 3
        THEN Fail("usage")
        ELSE /\ pc' = "open_scores"
             /\ UNCHANGED stderr
    /\ UNCHANGED <<score_file, score_map, scores, player_file, player_map,
                   players, limit, ranking, out_idx, stdout>>

----------------------------------------------------------------------------
(* Specifications *)

LIMIT == 10

InitAt(p) ==
    /\ pc = p
    /\ score_file = <<>>
    /\ score_map = EmptyMap
    /\ scores = <<>>
    /\ player_file = <<>>
    /\ player_map = EmptyMap
    /\ players = EmptyMap
    /\ limit = LIMIT
    /\ ranking = <<>>
    /\ out_idx = 0
    /\ stdout = <<>>
    /\ stderr = <<>>

\* get_scores alone, on the richer set of score literals
InitScores == InitAt("open_scores")
NextScores ==
    \/ OpenScores
    \/ SkipScoresHeader(RichHeaders)
    \/ ReadScoreLine(RichScoreLines, MaxLines)
    \/ ScoresReadErr
    \/ ScoresEof
SpecScores == InitScores /\ [][NextScores]_vars

\* the whole of main
Init == InitAt("args")
Next ==
    \/ GetArgs
    \/ OpenScores
    \/ SkipScoresHeader(MainHeaders)
    \/ ReadScoreLine(MainScoreLines, MaxMainLines)
    \/ ScoresReadErr
    \/ ScoresEof
    \/ OpenPlayers
    \/ SkipPlayersHeader(MainPlayerHeaders)
    \/ ReadPlayerLine(MainPlayerLines, MaxPlayerLines)
    \/ PlayersReadErr
    \/ PlayersEof
    \/ Sort
    \/ Rank
    \/ OutputHeader
    \/ OutputLine
    \/ OutputEnd
Spec == Init /\ [][Next]_vars

----------------------------------------------------------------------------
(* States of main after both loaders have returned Ok, built from the files *)
(* that produce them: every player has one line in the score log.           *)

Range(q) == { q[i] : i \in 1..Len(q) }
InjSeqs(S, n) == { q \in [1..n -> S] : \A i, j \in 1..n : q[i] = q[j] => i = j }

RECURSIVE FoldScores(_, _)
FoldScores(m, raws) ==
    IF raws = <<>> THEN m
    ELSE FoldScores(ScoreLineStep(m, Head(raws)).map, Tail(raws))

RECURSIVE FoldPlayers(_, _)
FoldPlayers(m, raws) ==
    IF raws = <<>> THEN m
    ELSE FoldPlayers(PlayerLineStep(m, Head(raws)).map, Tail(raws))

\* main at score::sort: ids and lits are the score log's lines, order the
\* order in which the hash map handed out the accumulators, dir the ids of
\* the player file
LoadedAt(ids, lits, order, dir, lim) ==
    LET slines == [i \in 1..Len(ids) |-> ScoreLine(ids[i], lits[i])]
        plines == [i \in 1..Len(dir) |-> PlayerLine(dir[i])]
        smap   == FoldScores(EmptyMap, slines)
        pmap   == FoldPlayers(EmptyMap, plines)
    IN  /\ pc = "sort"
        /\ score_file = <<ScoreHeader>> \o slines
        /\ score_map = smap
        /\ scores = [i \in 1..Len(order) |-> ScoreAverage(smap[order[i]])]
        /\ player_file = <<PlayerHeader>> \o plines
        /\ player_map = pmap
        /\ players = pmap
        /\ limit = lim
        /\ ranking = <<>>
        /\ out_idx = 0
        /\ stdout = <<>>
        /\ stderr = <<>>

\* sort and rank on every short vector of accumulators, for every limit
RankIds == {IdA, IdAB, IdB, <<"c">>}
RankLits == {<<"1">>, <<"2">>, LitNaN}
InitRank ==
    \E n \in 0..MaxScores :
        \E ids \in InjSeqs(RankIds, n) :
            \E lits \in [1..n -> RankLits] :
                \E lim \in 0..MaxLimit :
                    LoadedAt(ids, lits, ids, <<>>, lim)
SortRankNext ==
    \/ Sort
    \/ Rank
SpecRank == InitRank /\ [][SortRankNext]_vars

\* sort, rank and output of main on ladders of up to MaxLadder players
LadderIds ==
    << <<"a">>, <<"a", "a">>, <<"a", "b">>, <<"a", "c">>, <<"a", "d">>,
       <<"b">>, <<"b", "a">>, <<"b", "b">>, <<"b", "c">>, <<"b", "d">>,
       <<"c">>, <<"c", "a">>, <<"c", "b">>, <<"c", "c">>, <<"c", "d">> >>

Decimal(n) ==
    IF n < 10 THEN <<Digits[n + 1]>>
    ELSE <<Digits[(n \div 10) + 1], Digits[(n % 10) + 1]>>

\* player i of n scores i, except that with tie > 0 the players tie and tie+1
\* score the same
LadderLit(i, tie) == Decimal(IF tie > 0 /\ i > tie THEN i - 1 ELSE i)

InitOut ==
    \E n \in 0..MaxLadder :
        \E tie \in 0..Max2(n - 1, 0) :
            \E absent \in 0..n :
                \E reversed \in BOOLEAN :
                    LET ids   == [i \in 1..n |-> LadderIds[i]]
                        lits  == [i \in 1..n |-> LadderLit(i, tie)]
                        order == [i \in 1..n |->
                                    IF reversed THEN ids[n + 1 - i] ELSE ids[i]]
                        dir   == SelectSeq(ids, LAMBDA id :
                                    absent = 0 \/ id # LadderIds[absent])
                    IN  LoadedAt(ids, lits, order, dir, LIMIT)
NextOut ==
    \/ Sort
    \/ Rank
    \/ OutputHeader
    \/ OutputLine
    \/ OutputEnd
SpecOut == InitOut /\ [][NextOut]_vars

----------------------------------------------------------------------------
(* Properties *)

Abs(x) == IF x < 0 THEN -x ELSE x

Terminal == {"done", "error", "panic"}

\* the accumulators' order the specification asks of sort
Before(a, b) ==
    \/ FLt(b.mean_score, a.mean_score)
    \/ /\ FEq(a.mean_score, b.mean_score)
       /\ StrGt(b.player_id, a.player_id)

\* dense rank of position i: one more than the number of changes of
\* mean_score before it
DenseRank(v, i) ==
    1 + Cardinality({ j \in 1..(i - 1) : ~FEq(v[j].mean_score, v[j + 1].mean_score) })

RankedIds == { ranking[i].inner.player_id : i \in 1..Len(ranking) }

\* the header and every ranked line
FullOutput ==
    <<HeaderOut>> \o [i \in 1..Len(ranking) |-> LineOut(ranking[i], players)]

\* C1: every run ends all-or-nothing: either nothing is on standard output and
\* an error was surfaced, or the header and every ranked line were written.
C1_AllOrNothing ==
    pc \in Terminal =>
        \/ stdout = <<>> /\ stderr # <<>>
        \/ /\ RankedIds \subseteq DOMAIN players
           /\ stdout = FullOutput

\* C2: no entry returned by rank has a rank above limit, for every limit, 0
\* included.
C2_NoRankAboveLimit ==
    pc = "output" => \A i \in 1..Len(ranking) : ranking[i].rank <= limit

\* C3: rank returns exactly the entries of the sorted input whose dense rank
\* is at most limit, in order: a prefix that never ends inside a group of equal
\* mean_score and holds no entry of rank limit + 1; empty for an empty input.
C3_CutoffPrefix ==
    pc = "output" =>
        /\ Len(ranking) =
              Cardinality({ i \in 1..Len(scores) : DenseRank(scores, i) <= limit })
        /\ \A i \in 1..Len(ranking) :
              /\ i <= Len(scores)
              /\ ranking[i].inner = scores[i]
              /\ DenseRank(scores, i) <= limit

\* C4: the ranks rank emits on a vector sorted by sort start at 1, grow by 0 or
\* 1 from one entry to the next, and two entries share a rank exactly when
\* their mean_score values are equal.
C4_DenseGapless ==
    pc = "output" =>
        /\ Len(ranking) > 0 => ranking[1].rank = 1
        /\ \A i \in 1..(Len(ranking) - 1) :
              ranking[i + 1].rank - ranking[i].rank \in {0, 1}
        /\ \A i, j \in 1..Len(ranking) :
              i < j =>
                ((ranking[i].rank = ranking[j].rank)
                    <=> FEq(ranking[i].inner.mean_score, ranking[j].inner.mean_score))

\* C5: the comparator of sort is the total order (mean_score descending,
\* player_id ascending): of two different accumulators exactly one precedes the
\* other, and it is the one the order names; after sort every adjacent pair is
\* in that order and the vector is a permutation of the accumulators.
C5_TotalOrder ==
    /\ \A i, j \in 1..Len(scores) :
          i # j =>
            /\ (Compare(scores[i], scores[j]) = "Less") <=> Before(scores[i], scores[j])
            /\ (Compare(scores[i], scores[j]) = "Less")
                  # (Compare(scores[j], scores[i]) = "Less")
    /\ pc \in {"rank", "output"} =>
          /\ \A i \in 1..(Len(scores) - 1) : Before(scores[i], scores[i + 1])
          /\ Len(scores) = Cardinality(DOMAIN score_map)
          /\ Range(scores) = { ScoreAverage(score_map[k]) : k \in DOMAIN score_map }

\* the data lines of the score log read so far, and what one line holds
ScoreData == IF score_file = <<>> THEN <<>> ELSE Tail(score_file)
LineId(raw) == Split(FirstLine(raw))[2]
LineVal(raw) == ParseF64(Split(FirstLine(raw))[3]).val
LinesOf(id) == { i \in 1..Len(ScoreData) : LineId(ScoreData[i]) = id }

\* the sum of a set of lines' scores as a number, whether or not it is a double
RECURSIVE SumC(_)
SumC(I) ==
    IF I = {} THEN 0
    ELSE LET i == CHOOSE k \in I : TRUE
         IN  LineVal(ScoreData[i]).c + SumC(I \ {i})
RECURSIVE SumL(_)
SumL(I) ==
    IF I = {} THEN 0
    ELSE LET i == CHOOSE k \in I : TRUE
         IN  LineVal(ScoreData[i]).l + SumL(I \ {i})
ExactSum(I) ==
    IF \E i \in I : LineVal(ScoreData[i]).nan THEN NaN ELSE Fin(SumC(I), SumL(I))

\* x is a double
Representable(x) ==
    \/ x.nan
    \/ x.c = 0
    \/ UlpExp(x.c) <= 0
    \/ x.l % Pow2(UlpExp(x.c)) = 0

\* the scores of the lines I added one by one in the order of the file
RECURSIVE SumInFileOrder(_)
SumInFileOrder(I) ==
    LET last == CHOOSE k \in I : \A j \in I : j <= k
    IN  IF Cardinality(I) = 1 THEN LineVal(ScoreData[last])
        ELSE FAdd(SumInFileOrder(I \ {last}), LineVal(ScoreData[last]))

\* one accumulator per player of the log, each with the count of its lines
OnePerPlayer ==
    /\ \A i, j \in 1..Len(scores) :
          scores[i].player_id = scores[j].player_id => i = j
    /\ { scores[i].player_id : i \in 1..Len(scores) }
          = { LineId(ScoreData[i]) : i \in 1..Len(ScoreData) }
    /\ \A i \in 1..Len(scores) :
          /\ scores[i].play_count = Cardinality(LinesOf(scores[i].player_id))
          /\ scores[i].play_count >= 1

\* C6 as stated: get_scores returns one accumulator per player of the log, its
\* play_count the number of the player's lines and its total_score the sum of
\* the player's scores.
C6_ExactTotals ==
    pc = "open_players" =>
        /\ OnePerPlayer
        /\ \A i \in 1..Len(scores) :
              scores[i].total_score = ExactSum(LinesOf(scores[i].player_id))

\* C6 as amended: total_score is the f64 sum of the player's scores taken in
\* the order of the lines, and it is their exact sum whenever the sum of every
\* subset of them is a double (then no addition rounds, in any order).
C6_Totals ==
    pc = "open_players" =>
        /\ OnePerPlayer
        /\ \A i \in 1..Len(scores) :
              LET I == LinesOf(scores[i].player_id)
              IN  /\ scores[i].total_score = SumInFileOrder(I)
                  /\ (\A J \in SUBSET I : Representable(ExactSum(J)))
                        => scores[i].total_score = ExactSum(I)

C6_Witness ==
    /\ pc = "open_players"
    /\ Len(scores) = 2
    /\ \E i \in 1..Len(scores) :
          /\ scores[i].play_count = 2
          /\ scores[i].total_score = Fin(BigUnits, 1)

\* the integer nearest to num/den (den > 0), the farther from zero of two
\* equally near
NearestAwayFromZero(num, den) ==
    CHOOSE k \in (-Abs(num) - 1)..(Abs(num) + 1) :
        \/ 2 * Abs(num - k * den) < den
        \/ 2 * Abs(num - k * den) = den /\ Abs(k) * den > Abs(num)

\* the integer nearest to num/den (den > 0), the greater of two equally near
NearestTiesUp(num, den) ==
    CHOOSE k \in (-Abs(num) - 1)..(Abs(num) + 1) :
        \/ 2 * Abs(num - k * den) < den
        \/ 2 * Abs(num - k * den) = den /\ k * den > num

\* total_score / play_count as a number, rounded to the nearest integer,
\* halves away from zero (upwards when c > 0: the value is positive)
ExactMean(t, n) ==
    IF t.nan THEN NaN
    ELSE IF t.c = 0 THEN Fin(0, NearestAwayFromZero(t.l, n))
    ELSE Fin(t.c \div n, NearestTiesUp(t.l, n))

\* |t| < 2^52
Below2p52(t) == ~t.nan /\ t.c * UnitOdd < Pow2(MantissaBits - UnitExp)

\* mean_score is left at 0.0 while the lines are folded
MeanUntouchedInLoop ==
    pc \in {"scores_loop", "scores_eof"} =>
        \A k \in DOMAIN score_map : score_map[k].mean_score = Zero

\* C7 as stated: mean_score is total_score / play_count rounded to the nearest
\* integer, halves away from zero; computed once after the fold; for a single
\* play it is that score rounded.
C7_ExactMean ==
    /\ MeanUntouchedInLoop
    /\ pc = "open_players" =>
          \A i \in 1..Len(scores) :
              scores[i].mean_score
                  = ExactMean(scores[i].total_score, scores[i].play_count)

\* C7 as amended: the same for every total_score of magnitude below 2^52; a NaN
\* total gives a NaN mean; a single play gives that score.
C7_Mean ==
    /\ MeanUntouchedInLoop
    /\ pc = "open_players" =>
          \A i \in 1..Len(scores) :
              /\ scores[i].total_score.nan => scores[i].mean_score.nan
              /\ Below2p52(scores[i].total_score) =>
                    scores[i].mean_score
                        = ExactMean(scores[i].total_score, scores[i].play_count)
              /\ scores[i].play_count = 1 =>
                    scores[i].mean_score
                        = LineVal(ScoreData[CHOOSE k \in LinesOf(scores[i].player_id) : TRUE])

C7_Witness ==
    /\ pc = "open_players"
    /\ \E i \in 1..Len(scores) :
          /\ scores[i].play_count = 2
          /\ scores[i].total_score = Fin(0, -1)
          /\ scores[i].mean_score = Fin(0, -1)

\* a line that does not split into n fields; a score that does not parse
WrongFieldCount(raw, n) == Len(Split(FirstLine(raw))) # n
BadScoreLine(raw) ==
    \/ WrongFieldCount(raw, 3)
    \/ ~ParseF64(Split(FirstLine(raw))[3]).ok

\* C8: a line after the header with the wrong number of fields (3 in the score
\* log, 2 in the player file), or a score that is no number, ends the load with
\* an error at that line: nothing is returned, whatever came before, and the
\* run writes nothing to standard output.
C8_MalformedAborts ==
    /\ \A i \in 2..Len(score_file) :
          BadScoreLine(score_file[i]) =>
              /\ i = Len(score_file)
              /\ pc = "error"
              /\ stderr = <<IF WrongFieldCount(score_file[i], 3)
                            THEN "score format" ELSE "score value">>
              /\ scores = <<>>
              /\ players = EmptyMap
              /\ stdout = <<>>
    /\ \A i \in 2..Len(player_file) :
          WrongFieldCount(player_file[i], 2) =>
              /\ i = Len(player_file)
              /\ pc = "error"
              /\ stderr = <<"player format">>
              /\ players = EmptyMap
              /\ ranking = <<>>
              /\ stdout = <<>>

C8_Witness ==
    /\ pc = "error"
    /\ Len(score_file) = 3
    /\ ~BadScoreLine(score_file[2])
    /\ WrongFieldCount(score_file[3], 3)
    /\ Len(Split(FirstLine(score_file[3]))) > 3

\* what output writes for a ranking: the header, then the lines up to the
\* first player the directory does not hold
RECURSIVE LinesUntilMissing(_, _)
LinesUntilMissing(rk, dir) ==
    IF rk = <<>> \/ Head(rk).inner.player_id \notin DOMAIN dir THEN <<>>
    ELSE <<LineOut(Head(rk), dir)>> \o LinesUntilMissing(Tail(rk), dir)

PrintedFor(v) == <<HeaderOut>> \o LinesUntilMissing(RankOf(SortBy(v), limit), players)

\* C9: the output does not depend on the order in which the hash map hands
\* the accumulators to sort: every order gives the lines this run has written.
C9_Deterministic ==
    pc = "done" =>
        \A p \in Perms(1..Len(scores)) :
            PrintedFor([i \in 1..Len(scores) |-> scores[p[i]]]) = stdout

\* the players rank is to emit: those whose mean_score is among the limit
\* highest distinct values
HigherMeans(i) ==
    { scores[j].mean_score : j \in 1..Len(scores) } \ 
        { m \in { scores[j].mean_score : j \in 1..Len(scores) } :
            ~FLt(scores[i].mean_score, m) }
WithinLimit == { i \in 1..Len(scores) : Cardinality(HigherMeans(i)) < limit }

\* C10: output fails exactly when a player rank emitted is missing from the
\* directory; otherwise the run completes and prints every ranked line, even
\* when players beyond the cutoff are missing.
C10_MissingOnlyIfRanked ==
    pc \in {"done", "panic"} =>
        /\ pc = "done" <=> RankedIds \subseteq DOMAIN players
        /\ pc = "done" <=>
              \A i \in WithinLimit : scores[i].player_id \in DOMAIN players
        /\ pc = "done" =>
              /\ Len(stdout) = 1 + Cardinality(WithinLimit)
              /\ stdout[1] = HeaderOut
              /\ \A i \in WithinLimit :
                    stdout[i + 1] =
                        <<1 + Cardinality(HigherMeans(i)), scores[i].player_id,
                          players[scores[i].player_id].handle_name,
                          scores[i].mean_score>>

C10_Witness ==
    /\ pc = "done"
    /\ \E i \in 1..Len(scores) : scores[i].player_id \notin DOMAIN players
    /\ \E i, j \in 1..Len(ranking) :
          i # j /\ ranking[i].rank = limit /\ ranking[j].rank = limit

============================================================================
